---- MODULE Spec2Model ----
(***************************************************************************)
(* Model of the HomeKit producer Client (pkg/homekit/client.go): the       *)
(* capability read (GetMedias), the producer lifecycle (Start / Stop),     *)
(* the SRTP session registry, the inbound-packet handlers and the          *)
(* inactivity deadline timer.                                              *)
(*                                                                         *)
(* Start is modelled one source statement (or one external call) per       *)
(* action, so that Stop, the timer and the delivery contexts of the        *)
(* transport registry interleave with it as goroutines do.                 *)
(***************************************************************************)
EXTENDS Integers, Sequences, FiniteSets, TLC

\* ------------------------------------------------------------------ bounds
\* number of Start calls made on the one Client
MaxStarts == 2
\* the liveness window core.ConnDeadline, counted in clock ticks
ConnDeadline == 2
\* number of successful image fetches followed in the fallback loop
MaxFetches == 2

\* ------------------------------------------------------------- data model
\* codec names of the receivers (core.CodecJPEG is the still-image codec)
Codecs == {"H264", "OPUS", "JPEG"}

Kind(codec) == IF codec = "OPUS" THEN "audio" ELSE "video"

\* The Receivers slice of the producer base: a nil slice, or a slice of
\* receivers, each given by its codec name.
NilReceivers == [isNil |-> TRUE, list |-> <<>>]

ReceiverLists ==
    {NilReceivers}
    \cup {[isNil |-> FALSE, list |-> l] :
            l \in {<<>>} \cup {<<c>> : c \in Codecs}
                  \cup {<<"H264", "OPUS">>, <<"OPUS", "H264">>, <<"JPEG", "H264">>}}

\* capability descriptors an accessory can advertise (ordered codec variants)
VideoDescriptors == {<<"v1", "v2">>, <<"v2">>}
AudioDescriptors == {<<"a1", "a2">>, <<"a2">>}

\* A session is named by a positive number; 0 is the nil session pointer.
\* The k-th Start creates video session 2k-1 and audio session 2k.
NoSession == 0
VideoId(k) == 2 * k - 1
AudioId(k) == 2 * k
SessionIds == 1 .. (2 * MaxStarts)
SessionKind(s) == IF s % 2 = 1 THEN "video" ELSE "audio"
StartOf(s) == (s + 1) \div 2

\* values of Session.OnReadRTP
Handlers == {"unset", "resetWrite", "write"}

NoPacket == [kind |-> "none", handler |-> "unset"]

VARIABLES
    Receivers,      \* SuperProducer.Receivers
    Medias,         \* SuperProducer.Medias (<<>> is the nil slice)
    videoConfig,    \* Client.videoConfig.Codecs
    audioConfig,    \* Client.audioConfig.Codecs
    accessoryRead,  \* the last GetMedias call read the accessory
    videoSession,   \* Client.videoSession
    audioSession,   \* Client.audioSession
    stream,         \* Client.stream (<<>> is nil)
    registry,       \* the sessions registered with the srtp.Server
    OnReadRTP,      \* Session.OnReadRTP of every session
    hapClosed,      \* the accessory connection was closed
    pc,             \* position of the goroutine running Start
    starts,         \* number of Start calls so far
    videoTrack,     \* Start's local videoTrack (index into Receivers, 0 = nil)
    audioTrack,     \* Start's local audioTrack
    deadline,       \* Start's local timer: armed, ticks left, channel C
    err,            \* what the last Start returned
    stopErr,        \* what the last Stop returned
    panicked,       \* an unrecovered run-time panic ended the process
    fetched,        \* packets written by the fallback loop of this Start
    dialURL,        \* the connection URL of the last Dial call
    dialConn,       \* the hap.Client that call constructed
    dialResult,     \* what that call returned
    send,           \* limitter: samples stamped so far
    firstTime,      \* limitter: arrival time of the first packet
    now,            \* time.Now(), in clock ticks
    handled,        \* packets the limitter passed to the wrapped handler
    timestamp,      \* Timestamp of the last packet passed to the handler
    images,         \* GetImage calls of this Start that returned an image
    failures,       \* GetImage calls of this Start that returned an error
    sinceReset,     \* ticks since the timer was created or last reset
    everRegistered, \* sessions ever added to the registry
    removedTwice,   \* sessions taken out of the registry more than once
    removed,        \* sessions taken out of the registry
    opened,         \* the Start calls whose remote stream open succeeded
    lastPacket      \* the last packet delivered since Start was called: the kind
                    \* of its session and the handler that took it

\* the last call of the constructor Dial
dialVars == <<dialURL, dialConn, dialResult>>

\* the state of one handler built by limitter, with its clock and its output
pacerVars == <<send, firstTime, now, handled, timestamp>>

\* the fallback loop's counters
mjpegVars == <<fetched, images, failures>>

vars == <<Receivers, Medias, videoConfig, audioConfig, accessoryRead, videoSession, audioSession,
          stream, registry, OnReadRTP, hapClosed, pc, starts, videoTrack, audioTrack,
          deadline, err, stopErr, panicked, mjpegVars, sinceReset, everRegistered,
          removedTwice, removed, opened, lastPacket, pacerVars, dialVars>>

clientVars == <<Receivers, Medias, videoConfig, audioConfig, accessoryRead>>
sessionVars == <<videoSession, audioSession, stream>>
startVars == <<pc, starts, videoTrack, audioTrack, err, mjpegVars>>
historyVars == <<everRegistered, removedTwice, removed, opened, lastPacket>>

\* ----------------------------------------------------------------- Dial
QueryParams == {"device_id", "device_public", "client_id", "client_private"}

\* a query parameter the URL does not carry
Absent == "<absent>"

\* a raw URL that url.Parse rejects
NoURL == [wellFormed |-> FALSE, host |-> "", query |-> [k \in QueryParams |-> Absent]]

\* the raw URLs handed to Dial: the rejected one, and well-formed ones with
\* or without a host and with any of the four parameters absent
URLs ==
    {NoURL} \cup
    [wellFormed : {TRUE},
     host : {"", "camera:51826"},
     query : {q \in [QueryParams -> {Absent, "id1", "id2", "enc1", "enc2"}] :
                 /\ q["device_id"] \in {Absent, "id1", "id2"}
                 /\ q["client_id"] \in {Absent, "id1"}
                 /\ q["device_public"] \in {Absent, "enc1", "enc2"}
                 /\ q["client_private"] \in {Absent, "enc1", "enc2"}}]

\* url.Values.Get: the value, or the empty string for a parameter not present
QueryGet(q, k) == IF q[k] = Absent THEN "" ELSE q[k]

\* hap.DecodeKey: the key an encoded value stands for, empty for no value
DecodeKey(v) ==
    CASE v = "enc1" -> "key1"
      [] v = "enc2" -> "key2"
      [] OTHER -> ""

NoConn == [DeviceAddress |-> "", DeviceID |-> "", DevicePublic |-> "",
           ClientID |-> "", ClientPrivate |-> ""]

\* hap.Client.Dial: the handshake needs an address, the client's identifier
\* and both keys; with them the accessory may still refuse
HapDial(conn) ==
    IF \/ conn.DeviceAddress = ""
       \/ conn.DevicePublic = ""
       \/ conn.ClientID = ""
       \/ conn.ClientPrivate = ""
    THEN {"dial error"}
    ELSE {"nil", "dial error"}

\* the hap.Client built at lines 40-46
DialConn(u) ==
    [DeviceAddress |-> u.host,
     DeviceID      |-> QueryGet(u.query, "device_id"),
     DevicePublic  |-> DecodeKey(QueryGet(u.query, "device_public")),
     ClientID      |-> QueryGet(u.query, "client_id"),
     ClientPrivate |-> DecodeKey(QueryGet(u.query, "client_private"))]

\* func Dial(rawURL string, server *srtp.Server) (*Client, error)
Dial(u) ==
    /\ dialURL' = u
    /\ IF ~u.wellFormed
       THEN /\ dialConn' = NoConn
            /\ dialResult' = "parse error"
       ELSE /\ dialConn' = DialConn(u)
            /\ \E e \in HapDial(DialConn(u)) :
                 dialResult' = IF e = "nil" THEN "client" ELSE e
    /\ UNCHANGED <<clientVars, sessionVars, registry, OnReadRTP, hapClosed, startVars,
                   deadline, stopErr, panicked, sinceReset, historyVars, pacerVars>>

DialAny == \E u \in URLs : Dial(u)

\* -------------------------------------------------------- initial state
NoTimer == [armed |-> FALSE, left |-> 0, C |-> 0]

Init ==
    /\ Receivers \in ReceiverLists
    /\ Medias = <<>>
    /\ videoConfig = <<>>
    /\ audioConfig = <<>>
    /\ accessoryRead = FALSE
    /\ videoSession = NoSession
    /\ audioSession = NoSession
    /\ stream = <<>>
    /\ registry = {}
    /\ OnReadRTP = [s \in SessionIds |-> "unset"]
    /\ hapClosed = FALSE
    /\ pc = "idle"
    /\ starts = 0
    /\ videoTrack = 0
    /\ audioTrack = 0
    /\ deadline = NoTimer
    /\ err = "none"
    /\ stopErr = "none"
    /\ panicked = FALSE
    /\ fetched = 0
    /\ images = 0
    /\ dialURL = NoURL
    /\ dialConn = NoConn
    /\ dialResult = "none"
    /\ send = 0
    /\ firstTime = 0
    /\ now = 0
    /\ handled = 0
    /\ timestamp = 0
    /\ failures = 0
    /\ sinceReset = 0
    /\ everRegistered = {}
    /\ removedTwice = {}
    /\ removed = {}
    /\ opened = {}
    /\ lastPacket = NoPacket

\* ------------------------------------------------------ collaborators
\* srtp.Server.AddSession / DelSession: the registry is a set of sessions;
\* removing a nil or an absent session changes nothing.
AddSession(reg, s) == reg \cup {s}

DelSession(reg, s) == reg \ {s}

\* videoToMedia / audioToMedia: one media per direction, carrying the codec list
videoToMedia(codecs) == [kind |-> "video", codecs |-> codecs]

audioToMedia(codecs) == [kind |-> "audio", codecs |-> codecs]

\* trackToVideo / trackToAudio: the first advertised variant, narrowed to the track
trackToVideo(track, codec0) == [codec |-> codec0, track |-> track]

trackToAudio(track, codec0) == [codec |-> codec0, track |-> track]

\* ------------------------------------------------------------ GetMedias
GetMediasOutcomes ==
    {"accessoryError", "videoAbsent", "videoMalformed", "audioAbsent",
     "audioMalformed", "ok"}

\* GetMedias without the test of the cached list: every call reads again
GetMediasNeverCached == FALSE

\* GetMedias, lines 60-62: the cached media list is returned
GetMediasCached == Medias # <<>>

\* func (c *Client) GetMedias() []*core.Media
GetMedias ==
    /\ ~panicked
    /\ pc = "idle"
    /\ accessoryRead' = ~GetMediasCached
    /\ \E outcome \in GetMediasOutcomes, vd \in VideoDescriptors, ad \in AudioDescriptors :
        /\ hapClosed => outcome = "accessoryError"
        /\ IF GetMediasCached
           THEN UNCHANGED <<Medias, videoConfig, audioConfig>>
           ELSE CASE outcome \in {"accessoryError", "videoAbsent", "videoMalformed"} ->
                        UNCHANGED <<Medias, videoConfig, audioConfig>>
                  [] outcome \in {"audioAbsent", "audioMalformed"} ->
                        /\ videoConfig' = vd
                        /\ UNCHANGED <<Medias, audioConfig>>
                  [] outcome = "ok" ->
                        /\ videoConfig' = vd
                        /\ audioConfig' = ad
                        /\ Medias' = <<videoToMedia(vd), audioToMedia(ad)>>
    /\ UNCHANGED <<Receivers, sessionVars, registry, OnReadRTP, hapClosed, startVars,
                   deadline, stopErr, panicked, sinceReset, historyVars>>
    /\ UNCHANGED <<pacerVars, dialVars>>

\* ---------------------------------------------------------------- Start
\* func (c *Client) trackByKind(kind string) *core.Receiver
trackByKind(kind) ==
    LET hits == {i \in 1 .. Len(Receivers.list) : Kind(Receivers.list[i]) = kind}
    IN  IF hits = {} THEN 0 ELSE CHOOSE i \in hits : \A j \in hits : i <= j

\* a caller invokes Start (one Start at a time)
StartCall ==
    /\ ~panicked
    /\ pc = "idle"
    /\ starts < MaxStarts
    /\ pc' = "check"
    /\ starts' = starts + 1
    /\ err' = "pending"
    /\ fetched' = 0
    /\ images' = 0
    /\ failures' = 0
    /\ videoTrack' = 0
    /\ audioTrack' = 0
    /\ lastPacket' = NoPacket
    /\ UNCHANGED <<clientVars, sessionVars, registry, OnReadRTP, hapClosed, deadline,
                   stopErr, panicked, sinceReset, everRegistered, removedTwice, removed,
                   opened>>
    /\ UNCHANGED <<pacerVars, dialVars>>

\* Start, lines 94-100: the precondition and the choice of the fallback mode
StartCheck ==
    /\ ~panicked
    /\ pc = "check"
    /\ IF Receivers.isNil
       THEN /\ err' = "producer without tracks"
            /\ pc' = "idle"
            /\ UNCHANGED panicked
       ELSE IF Len(Receivers.list) = 0
       THEN \* c.Receivers[0] on an empty slice: index out of range
            /\ panicked' = TRUE
            /\ pc' = "panicCheck"
            /\ UNCHANGED err
       ELSE IF Receivers.list[1] = "JPEG"
       THEN /\ pc' = "mjpeg"
            /\ UNCHANGED <<err, panicked>>
       ELSE /\ pc' = "select"
            /\ UNCHANGED <<err, panicked>>
    /\ UNCHANGED <<clientVars, sessionVars, registry, OnReadRTP, hapClosed, starts,
                   videoTrack, audioTrack, mjpegVars, deadline, stopErr, sinceReset,
                   historyVars>>
    /\ UNCHANGED <<pacerVars, dialVars>>

\* Start, lines 102-106: the tracks by kind and the first advertised codecs
StartSelect ==
    /\ ~panicked
    /\ pc = "select"
    /\ videoTrack' = trackByKind("video")
    /\ audioTrack' = trackByKind("audio")
    /\ IF videoConfig = <<>> \/ audioConfig = <<>>
       THEN \* Codecs[0] of a descriptor that was never read: index out of range
            /\ panicked' = TRUE
            /\ pc' = "panicSelect"
       ELSE /\ pc' = "videoSession"
            /\ UNCHANGED panicked
    /\ UNCHANGED <<clientVars, sessionVars, registry, OnReadRTP, hapClosed, starts, err,
                   mjpegVars, deadline, stopErr, sinceReset, historyVars>>
    /\ UNCHANGED <<pacerVars, dialVars>>

\* Start, line 108
StartVideoSession ==
    /\ ~panicked
    /\ pc = "videoSession"
    /\ videoSession' = VideoId(starts)
    /\ pc' = "audioSession"
    /\ UNCHANGED <<clientVars, audioSession, stream, registry, OnReadRTP, hapClosed,
                   starts, videoTrack, audioTrack, err, mjpegVars, deadline, stopErr,
                   panicked, sinceReset, historyVars>>
    /\ UNCHANGED <<pacerVars, dialVars>>

\* Start building an audio session only for a Client that holds an audio track
StartAudioSessionIfWanted ==
    /\ ~panicked
    /\ pc = "audioSession"
    /\ audioSession' = IF audioTrack # 0 THEN AudioId(starts) ELSE NoSession
    /\ pc' = "newStream"
    /\ UNCHANGED <<clientVars, videoSession, stream, registry, OnReadRTP, hapClosed,
                   starts, videoTrack, audioTrack, err, mjpegVars, deadline, stopErr,
                   panicked, sinceReset, historyVars>>
    /\ UNCHANGED <<pacerVars, dialVars>>

\* Start, line 109
StartAudioSession ==
    /\ ~panicked
    /\ pc = "audioSession"
    /\ audioSession' = AudioId(starts)
    /\ pc' = "newStream"
    /\ UNCHANGED <<clientVars, videoSession, stream, registry, OnReadRTP, hapClosed,
                   starts, videoTrack, audioTrack, err, mjpegVars, deadline, stopErr,
                   panicked, sinceReset, historyVars>>
    /\ UNCHANGED <<pacerVars, dialVars>>

\* StartNewStream with the error of camera.NewStream ignored: Start goes on to
\* register the sessions whether or not the accessory accepted
StartNewStreamIgnoringError ==
    /\ ~panicked
    /\ pc = "newStream"
    /\ \E accepted \in BOOLEAN :
        /\ hapClosed => ~accepted
        /\ IF accepted
           THEN /\ stream' = <<trackToVideo(videoTrack, videoConfig[1]),
                               trackToAudio(audioTrack, audioConfig[1])>>
                /\ opened' = opened \cup {starts}
           ELSE /\ stream' = <<>>
                /\ UNCHANGED opened
    /\ pc' = "addVideo"
    /\ UNCHANGED <<clientVars, videoSession, audioSession, registry, OnReadRTP,
                   hapClosed, starts, videoTrack, audioTrack, err, mjpegVars, deadline,
                   stopErr, panicked, sinceReset, everRegistered, removedTwice,
                   removed, lastPacket>>
    /\ UNCHANGED <<pacerVars, dialVars>>

\* Start, lines 111-115: camera.NewStream; the accessory accepts or declines
StartNewStream ==
    /\ ~panicked
    /\ pc = "newStream"
    /\ \E accepted \in BOOLEAN :
        /\ hapClosed => ~accepted
        /\ IF accepted
           THEN /\ stream' = <<trackToVideo(videoTrack, videoConfig[1]),
                               trackToAudio(audioTrack, audioConfig[1])>>
                /\ pc' = "addVideo"
                /\ opened' = opened \cup {starts}
                /\ UNCHANGED err
           ELSE /\ stream' = <<>>
                /\ err' = "remote declined"
                /\ pc' = "idle"
                /\ UNCHANGED opened
    /\ UNCHANGED <<clientVars, videoSession, audioSession, registry, OnReadRTP,
                   hapClosed, starts, videoTrack, audioTrack, mjpegVars, deadline,
                   stopErr, panicked, sinceReset, everRegistered, removedTwice,
                   removed, lastPacket>>
    /\ UNCHANGED <<pacerVars, dialVars>>

\* the sessions Start hands to AddSession at lines 117 and 118
StartRegisters(step) == IF step = "addVideo" THEN videoSession ELSE audioSession

\* Start, line 117
StartAddVideo ==
    /\ ~panicked
    /\ pc = "addVideo"
    /\ registry' = AddSession(registry, StartRegisters("addVideo"))
    /\ everRegistered' = everRegistered \cup {StartRegisters("addVideo")}
    /\ pc' = "addAudio"
    /\ UNCHANGED <<clientVars, sessionVars, OnReadRTP, hapClosed, starts, videoTrack,
                   audioTrack, err, mjpegVars, deadline, stopErr, panicked, sinceReset,
                   removedTwice, removed, opened, lastPacket>>
    /\ UNCHANGED <<pacerVars, dialVars>>

\* Start, line 118
StartAddAudio ==
    /\ ~panicked
    /\ pc = "addAudio"
    /\ registry' = AddSession(registry, StartRegisters("addAudio"))
    /\ everRegistered' = everRegistered \cup {StartRegisters("addAudio")}
    /\ pc' = "newTimer"
    /\ UNCHANGED <<clientVars, sessionVars, OnReadRTP, hapClosed, starts, videoTrack,
                   audioTrack, err, mjpegVars, deadline, stopErr, panicked, sinceReset,
                   removedTwice, removed, opened, lastPacket>>
    /\ UNCHANGED <<pacerVars, dialVars>>

\* Start, line 120: time.NewTimer(core.ConnDeadline)
StartNewTimer ==
    /\ ~panicked
    /\ pc = "newTimer"
    /\ deadline' = [armed |-> TRUE, left |-> ConnDeadline, C |-> 0]
    /\ sinceReset' = 0
    /\ pc' = "install"
    /\ UNCHANGED <<clientVars, sessionVars, registry, OnReadRTP, hapClosed, starts,
                   videoTrack, audioTrack, err, mjpegVars, stopErr, panicked, historyVars>>
    /\ UNCHANGED <<pacerVars, dialVars>>

\* a handler that writes the packet to its track and leaves the deadline alone
WriteOnlyHandler == "write"

\* the handler of lines 123-126 and 132-135: reset the deadline, then write
LivenessHandler == "resetWrite"

\* an audio handler that resets the deadline as the video handler does
ResettingAudioHandler == "resetWrite"

\* the handler the audio session gets at line 129, when both tracks exist
AudioHandlerBesideVideo == "write"

\* Start, lines 122-127 and 131-136: the handler that carries the liveness signal
StartInstall ==
    /\ ~panicked
    /\ pc = "install"
    /\ IF videoTrack # 0
       THEN /\ OnReadRTP' = [OnReadRTP EXCEPT ![videoSession] = LivenessHandler]
            /\ pc' = IF audioTrack # 0 THEN "installAudio" ELSE "wait"
       ELSE /\ OnReadRTP' = [OnReadRTP EXCEPT ![audioSession] = LivenessHandler]
            /\ pc' = "wait"
    /\ UNCHANGED <<clientVars, sessionVars, registry, hapClosed, starts, videoTrack,
                   audioTrack, err, mjpegVars, deadline, stopErr, panicked, sinceReset,
                   historyVars>>
    /\ UNCHANGED <<pacerVars, dialVars>>

\* Start, lines 128-130
StartInstallAudio ==
    /\ ~panicked
    /\ pc = "installAudio"
    /\ OnReadRTP' = [OnReadRTP EXCEPT ![audioSession] = AudioHandlerBesideVideo]
    /\ pc' = "wait"
    /\ UNCHANGED <<clientVars, sessionVars, registry, hapClosed, starts, videoTrack,
                   audioTrack, err, mjpegVars, deadline, stopErr, panicked, sinceReset,
                   historyVars>>
    /\ UNCHANGED <<pacerVars, dialVars>>

\* StartWait with the expiry of the deadline reported as a failure
StartWaitReturningError ==
    /\ ~panicked
    /\ pc = "wait"
    /\ deadline.C = 1
    /\ deadline' = NoTimer
    /\ err' = "deadline exceeded"
    /\ pc' = "idle"
    /\ UNCHANGED <<clientVars, sessionVars, registry, OnReadRTP, hapClosed, starts,
                   videoTrack, audioTrack, mjpegVars, stopErr, panicked, sinceReset,
                   historyVars>>
    /\ UNCHANGED <<pacerVars, dialVars>>

\* Start, lines 138-140: <-deadline.C, then return nil
StartWait ==
    /\ ~panicked
    /\ pc = "wait"
    /\ deadline.C = 1
    /\ deadline' = NoTimer
    /\ err' = "nil"
    /\ pc' = "idle"
    /\ UNCHANGED <<clientVars, sessionVars, registry, OnReadRTP, hapClosed, starts,
                   videoTrack, audioTrack, mjpegVars, stopErr, panicked, sinceReset,
                   historyVars>>
    /\ UNCHANGED <<pacerVars, dialVars>>

\* startMJPEG with a failed fetch answered by another turn of the loop
StartGetImageRetrying ==
    /\ ~panicked
    /\ pc = "mjpeg"
    /\ \E fetchOk \in BOOLEAN :
        /\ hapClosed => ~fetchOk
        /\ IF fetchOk
           THEN /\ images' = IF images < MaxFetches THEN images + 1 ELSE images
                /\ fetched' = IF fetched < MaxFetches THEN fetched + 1 ELSE fetched
                /\ UNCHANGED <<err, pc, failures>>
           ELSE /\ failures' = IF failures < MaxFetches THEN failures + 1 ELSE failures
                /\ UNCHANGED <<err, pc, images, fetched>>
    /\ UNCHANGED <<clientVars, sessionVars, registry, OnReadRTP, hapClosed, starts,
                   videoTrack, audioTrack, deadline, stopErr, panicked, sinceReset,
                   historyVars>>
    /\ UNCHANGED <<pacerVars, dialVars>>

\* startMJPEG, lines 176-187: one turn of the polling loop
StartGetImage ==
    /\ ~panicked
    /\ pc = "mjpeg"
    /\ \E fetchOk \in BOOLEAN :
        /\ hapClosed => ~fetchOk
        /\ IF fetchOk
           THEN /\ images' = IF images < MaxFetches THEN images + 1 ELSE images
                /\ fetched' = IF fetched < MaxFetches THEN fetched + 1 ELSE fetched
                /\ UNCHANGED <<err, pc, failures>>
           ELSE /\ failures' = IF failures < MaxFetches THEN failures + 1 ELSE failures
                /\ err' = "image error"
                /\ pc' = "idle"
                /\ UNCHANGED <<images, fetched>>
    /\ UNCHANGED <<clientVars, sessionVars, registry, OnReadRTP, hapClosed, starts,
                   videoTrack, audioTrack, deadline, stopErr, panicked, sinceReset,
                   historyVars>>
    /\ UNCHANGED <<pacerVars, dialVars>>

\* ---------------------------------------------------------- MarshalJSON
\* func (c *Client) MarshalJSON() ([]byte, error): line 159 reads the Recv
\* field through both session pointers, which panics on a nil one; with both
\* sessions present the call only reads
MarshalJSON ==
    /\ ~panicked
    /\ panicked' = (videoSession = NoSession \/ audioSession = NoSession)
    /\ UNCHANGED <<clientVars, sessionVars, registry, OnReadRTP, hapClosed, startVars,
                   deadline, stopErr, sinceReset, historyVars>>
    /\ UNCHANGED <<pacerVars, dialVars>>

\* ----------------------------------------------------------------- Stop
\* the sessions Stop hands to DelSession at lines 146 and 147
StopRemoves == <<videoSession, audioSession>>

\* Stop reading a field of each session before removing it: a nil session
\* pointer is dereferenced
StopDereferencing ==
    /\ ~panicked
    /\ IF NoSession \in {StopRemoves[1], StopRemoves[2]}
       THEN /\ panicked' = TRUE
            /\ UNCHANGED <<registry, removed, removedTwice, hapClosed, stopErr>>
       ELSE /\ registry' = DelSession(DelSession(registry, StopRemoves[1]), StopRemoves[2])
            /\ removed' = removed \cup (registry \ registry')
            /\ removedTwice' = removedTwice \cup ((registry \ registry') \cap removed)
            /\ hapClosed' = TRUE
            /\ \E e \in {"nil", "close error"} : stopErr' = e
            /\ UNCHANGED panicked
    /\ UNCHANGED <<clientVars, sessionVars, OnReadRTP, startVars, deadline, sinceReset,
                   everRegistered, opened, lastPacket>>
    /\ UNCHANGED <<pacerVars, dialVars>>

\* Stop that also cancels a Start blocked on its deadline
StopCancellingStart ==
    /\ ~panicked
    /\ registry' = DelSession(DelSession(registry, StopRemoves[1]), StopRemoves[2])
    /\ removed' = removed \cup (registry \ registry')
    /\ removedTwice' = removedTwice \cup ((registry \ registry') \cap removed)
    /\ hapClosed' = TRUE
    /\ \E e \in {"nil", "close error"} : stopErr' = e
    /\ IF pc = "wait"
       THEN /\ pc' = "idle"
            /\ err' = "closed"
            /\ deadline' = NoTimer
       ELSE UNCHANGED <<pc, err, deadline>>
    /\ UNCHANGED <<clientVars, sessionVars, OnReadRTP, starts, videoTrack, audioTrack,
                   mjpegVars, panicked, sinceReset, everRegistered, opened, lastPacket>>
    /\ UNCHANGED <<pacerVars, dialVars>>

\* func (c *Client) Stop() error, lines 143-150: the producer base is closed,
\* both sessions are removed from the registry, the accessory connection is
\* closed and its error returned
Stop ==
    /\ ~panicked
    /\ registry' = DelSession(DelSession(registry, StopRemoves[1]), StopRemoves[2])
    /\ removed' = removed \cup (registry \ registry')
    /\ removedTwice' = removedTwice \cup ((registry \ registry') \cap removed)
    /\ hapClosed' = TRUE
    /\ \E e \in {"nil", "close error"} : stopErr' = e
    /\ UNCHANGED <<clientVars, sessionVars, OnReadRTP, startVars, deadline, panicked,
                   sinceReset, everRegistered, opened, lastPacket>>
    /\ UNCHANGED <<pacerVars, dialVars>>

\* ------------------------------------------------------- deadline timer
\* time.Timer.Reset: the timer is armed again for the whole window.  A value
\* the timer already sent on C stays there or is discarded, depending on
\* the run-time's timer channels.
TimerReset(t) == {[armed |-> TRUE, left |-> ConnDeadline, C |-> c] : c \in {t.C, 0}}

\* one clock tick of an armed timer
Tick ==
    /\ ~panicked
    /\ deadline.armed
    /\ deadline.left > 0
    /\ deadline' = [deadline EXCEPT !.left = @ - 1]
    /\ sinceReset' = IF sinceReset < ConnDeadline THEN sinceReset + 1 ELSE sinceReset
    /\ UNCHANGED <<clientVars, sessionVars, registry, OnReadRTP, hapClosed, startVars,
                   stopErr, panicked, historyVars>>
    /\ UNCHANGED <<pacerVars, dialVars>>

\* the window has elapsed: the run-time sends on deadline.C
TimerFire ==
    /\ ~panicked
    /\ deadline.armed
    /\ deadline.left = 0
    /\ deadline' = [armed |-> FALSE, left |-> 0, C |-> 1]
    /\ UNCHANGED <<clientVars, sessionVars, registry, OnReadRTP, hapClosed, startVars,
                   stopErr, panicked, sinceReset, historyVars>>
    /\ UNCHANGED <<pacerVars, dialVars>>

\* ------------------------------------------------------ packet delivery
\* The transport registry reads a packet for registered session s and calls
\* s.OnReadRTP when it is set.  The handlers are the closures of lines
\* 123-135; a handler of an earlier Start holds that Start's timer.
Deliver(s) ==
    /\ ~panicked
    /\ s \in registry
    /\ IF OnReadRTP[s] = "resetWrite" /\ StartOf(s) = starts /\ deadline # NoTimer
       THEN /\ deadline' \in TimerReset(deadline)
            /\ sinceReset' = 0
       ELSE UNCHANGED <<deadline, sinceReset>>
    /\ lastPacket' = [kind |-> SessionKind(s), handler |-> OnReadRTP[s]]
    /\ UNCHANGED <<clientVars, sessionVars, registry, OnReadRTP, hapClosed, startVars,
                   stopErr, panicked, everRegistered, removedTwice, removed, opened>>
    /\ UNCHANGED <<pacerVars, dialVars>>

DeliverAny == \E s \in SessionIds : Deliver(s)

\* ------------------------------------------------------- specification
StartStep ==
    \/ StartCheck
    \/ StartSelect
    \/ StartVideoSession
    \/ StartAudioSession
    \/ StartNewStream
    \/ StartAddVideo
    \/ StartAddAudio
    \/ StartNewTimer
    \/ StartInstall
    \/ StartInstallAudio
    \/ StartWait
    \/ StartGetImage

Next ==
    \/ GetMedias
    \/ StartCall
    \/ StartStep
    \/ MarshalJSON
    \/ Stop
    \/ Tick
    \/ TimerFire
    \/ DeliverAny

Spec == Init /\ [][Next]_vars

\* The Go scheduler runs every runnable goroutine: a started Start takes its
\* next step, the clock advances and an elapsed timer fires.
FairSpec ==
    /\ Spec
    /\ WF_vars(StartStep)
    /\ WF_vars(Tick)
    /\ WF_vars(TimerFire)

\* a specification of the constructor alone
DialSpec == Init /\ [][DialAny]_vars

\* ------------------------------------------------------------- limitter
\* the clock runs in ticks of 10 ms: time.Second, line 212
TicksPerSecond == 100

sampleRate == 16000

sampleSize == 480

\* the last clock reading explored
MaxClock == 12

\* uint32(send), line 221: the low 32 bits
Uint32(x) == x - ((x \div 65536) \div 65536) * 65536 * 65536

\* now.Sub(firstTime) * sampleRate / time.Second, line 212; up to MaxClock the
\* product stays far below the 64 bits of a time.Duration
Elapsed(t) == ((t - firstTime) * sampleRate) \div TicksPerSecond

\* the test of line 213 made against the samples already stamped
OverflowsAlreadySent(total, elapsed) == total > elapsed

\* send+sampleSize > elapsed, line 213
Overflows(total, elapsed) == total + sampleSize > elapsed

\* the handler returned by limitter, lines 207-224, called with one packet
LimitterPacket ==
    /\ IF send # 0 /\ Overflows(send, Elapsed(now))
       THEN UNCHANGED <<send, firstTime, handled, timestamp>>
       ELSE /\ firstTime' = IF send # 0 THEN firstTime ELSE now
            /\ send' = send + sampleSize
            /\ timestamp' = Uint32(send')
            /\ handled' = handled + 1
    /\ UNCHANGED now
    /\ UNCHANGED <<clientVars, sessionVars, registry, OnReadRTP, hapClosed, startVars,
                   deadline, stopErr, panicked, sinceReset, historyVars, dialVars>>

\* time passes between two packets
ClockTick ==
    /\ now < MaxClock
    /\ now' = now + 1
    /\ UNCHANGED <<send, firstTime, handled, timestamp>>
    /\ UNCHANGED <<clientVars, sessionVars, registry, OnReadRTP, hapClosed, startVars,
                   deadline, stopErr, panicked, sinceReset, historyVars, dialVars>>

PacerNext ==
    \/ LimitterPacket
    \/ ClockTick

PacerSpec == Init /\ [][PacerNext]_vars

\* ================================================================ claims

\* C1: the sessions are added to the registry only after the remote stream
\* open of their Start has succeeded; when the open fails Start returns that
\* error, and the two sessions it constructed (the Client's videoSession and
\* audioSession) are not registered, as long as that result stands.
C1_RegisteredOnlyAfterOpen ==
    /\ \A s \in registry : StartOf(s) \in opened
    /\ \A s \in everRegistered : StartOf(s) \in opened
    /\ err = "remote declined" =>
          /\ pc = "idle"
          /\ starts \notin opened
          /\ videoSession = VideoId(starts)
          /\ audioSession = AudioId(starts)
          /\ videoSession \notin registry
          /\ audioSession \notin registry

\* a Start was declined by the accessory after an earlier Start had registered
\* its sessions
C1_Witness ==
    /\ err = "remote declined"
    /\ videoSession # NoSession
    /\ everRegistered # {}

\* Start is past the remote stream open, which succeeded
SetupDone == pc \in {"addVideo", "addAudio", "newTimer", "install", "installAudio", "wait"}

\* C2: once the remote stream open of a Start has succeeded, if from some
\* point on no packet is delivered to a session, that Start returns, and it
\* returns nil.
C2_DeadlineReturnsNil ==
    (<>[][~DeliverAny]_vars) => (SetupDone ~> (pc = "idle" /\ err = "nil"))

\* Start has returned nil after packets had been delivered
C2_Witness ==
    /\ pc = "idle"
    /\ err = "nil"
    /\ lastPacket.handler = "resetWrite"

\* the Client holds a video track and an audio track
BothTracks == trackByKind("video") # 0 /\ trackByKind("audio") # 0

\* session s of the running Start takes a packet with its handler
HandledBy(s) ==
    /\ Deliver(s)
    /\ StartOf(s) = starts
    /\ OnReadRTP[s] # "unset"
    /\ deadline # NoTimer
    /\ BothTracks

\* the step leaves the timer armed for a whole window
TimerRestarted ==
    /\ deadline'.armed
    /\ deadline'.left = ConnDeadline
    /\ sinceReset' = 0

\* C3: after a successful Start with both a video and an audio track, every
\* packet delivered to the video session's or to the audio session's callback
\* resets the shared deadline timer.
C3_AnyPacketResets ==
    [][\A s \in SessionIds : HandledBy(s) => TimerRestarted]_vars

\* C3, as amended: with both tracks present, every packet delivered to the
\* video session's callback resets the deadline timer, and a packet delivered
\* to the audio session's callback leaves the timer as it was.
C3_VideoPacketResets ==
    [][\A s \in SessionIds :
          HandledBy(s) => IF SessionKind(s) = "video"
                          THEN TimerRestarted
                          ELSE UNCHANGED <<deadline, sinceReset>>]_vars

\* a video packet has restarted a timer that had already fired
C3_Witness ==
    /\ BothTracks
    /\ pc = "wait"
    /\ lastPacket = [kind |-> "video", handler |-> "resetWrite"]
    /\ deadline = [armed |-> TRUE, left |-> ConnDeadline, C |-> 1]
    /\ sinceReset = 0

\* C4: Start on a Client with zero receiver tracks (a nil or an empty list)
\* returns "producer without tracks", and creates no session, opens no remote
\* stream and registers nothing.
C4_NoTracksError ==
    (starts > 0 /\ pc # "check" /\ Len(Receivers.list) = 0) =>
        /\ pc # "panicCheck"
        /\ err = "producer without tracks"
        /\ videoSession = NoSession
        /\ audioSession = NoSession
        /\ stream = <<>>
        /\ everRegistered = {}

\* C5: when Stop returns (no Start being in flight), no session the Client
\* ever registered is left in the registry, whatever Start calls preceded it.
C5_StopLeavesNothing ==
    [][(Stop /\ pc = "idle") => (registry' \cap everRegistered' = {})]_vars

\* C6: Stop is safe in every lifecycle state: it does not panic, it removes
\* exactly the Client's two sessions (nil and absent ones being no-ops), it
\* removes no session a second time, and a Stop repeated at once would change
\* nothing more.
C6_StopSafe ==
    [][Stop =>
          /\ ~panicked'
          /\ registry' = registry \ {videoSession, audioSession}
          /\ removedTwice' = {}
          /\ hapClosed'
          /\ DelSession(DelSession(registry', videoSession'), audioSession') = registry']_vars

\* Stop has returned on a Client that was never started
C6_Witness ==
    /\ hapClosed
    /\ stopErr # "none"
    /\ starts = 0
    /\ videoSession = NoSession
    /\ audioSession = NoSession
    /\ ~panicked

\* C7: at most one video session and at most one audio session of the Client
\* are registered at the same time.
C7_AtMostOnePerKind ==
    /\ Cardinality({s \in registry : SessionKind(s) = "video"}) <= 1
    /\ Cardinality({s \in registry : SessionKind(s) = "audio"}) <= 1

\* C8: Start creates no session unless GetMedias has succeeded before, and on
\* a Client whose negotiation never ran or failed it does not crash while
\* selecting the first advertised codec.
C8_NoSessionWithoutNegotiation ==
    Medias = <<>> =>
        /\ videoSession = NoSession
        /\ audioSession = NoSession
        /\ pc # "panicSelect"

\* C9: no session is registered while the handler for its existing track is
\* still unset.
C9_HandlerBeforeRegistration ==
    \A s \in registry : trackByKind(SessionKind(s)) # 0 => OnReadRTP[s] # "unset"

\* C10: Start returns from the steady state only when the deadline has fired
\* with no deadline-resetting packet handled during the preceding window.
C10_NoResetLost ==
    [][StartWait => sinceReset = ConnDeadline]_vars

\* C11: a GetMedias call that returns no media (the accessory read, a
\* capability lookup or a decode failed) leaves the cached media list, the
\* cached video descriptor and the cached audio descriptor as they were.
C11_NoPartialState ==
    [][(GetMedias /\ Medias' = <<>>) => UNCHANGED <<Medias, videoConfig, audioConfig>>]_vars

\* C12: once a GetMedias call has succeeded, every later call returns the
\* cached media list unchanged, reads nothing from the accessory and leaves
\* the cached descriptors alone.
C12_GetMediasIdempotent ==
    [][(GetMedias /\ Medias # <<>>) =>
          /\ Medias' = Medias
          /\ UNCHANGED <<videoConfig, audioConfig>>
          /\ ~accessoryRead']_vars

\* a GetMedias call was answered from the cache
C12_Witness ==
    /\ Medias # <<>>
    /\ ~accessoryRead

\* Start runs the MJPEG fallback: the first receiver is the still-image one
\* and Start is in the polling loop or has returned from it
InFallback ==
    /\ ~Receivers.isNil
    /\ Len(Receivers.list) > 0
    /\ Receivers.list[1] = "JPEG"
    /\ starts > 0
    /\ pc \in {"mjpeg", "idle"}

\* C13: in MJPEG fallback mode Start stays in the loop while fetches succeed
\* and returns exactly when a fetch fails, with that fetch's error, after no
\* more than one failed fetch, having written one packet per fetched image.
C13_FallbackStopsAtFirstFailure ==
    InFallback =>
        /\ fetched = images
        /\ pc = "mjpeg" => (failures = 0 /\ err = "pending")
        /\ pc = "idle" => (failures = 1 /\ err = "image error")

\* the loop wrote packets and then returned at the first failed fetch
C13_Witness ==
    /\ InFallback
    /\ pc = "idle"
    /\ fetched = MaxFetches
    /\ failures = 1

\* C14: status reporting (MarshalJSON) never panics, whatever the lifecycle
\* state, a Client whose sessions are still nil included.
C14_MarshalJSONNeverPanics ==
    [][MarshalJSON => ~panicked']_vars

\* C15: the limitter forwards the first packet whenever it arrives; the n-th
\* forwarded packet carries timestamp 480*n as a 32-bit value; a later packet
\* is forwarded only if the running total plus 480 does not exceed the
\* elapsed sample time (now - first) * 16000 per second; a dropped packet
\* does not reach the handler and leaves running total and start time alone.
C15_PacerContract ==
    [][LimitterPacket =>
          /\ handled = 0 => (handled' = 1 /\ firstTime' = now)
          /\ handled' # handled =>
                /\ handled' = handled + 1
                /\ timestamp' = Uint32(480 * handled')
                /\ handled > 0 => timestamp' = timestamp + 480
                /\ handled > 0 => send + 480 <= ((now - firstTime) * 16000) \div TicksPerSecond
          /\ handled' = handled => UNCHANGED <<send, firstTime, timestamp>>]_vars

\* packets were forwarded and a packet arriving too early was then dropped
C15_Witness ==
    /\ handled >= 3
    /\ send = 480 * handled
    /\ Overflows(send, Elapsed(now))
    /\ now > firstTime
    /\ firstTime > 0

\* C16: Dial returns a Client only when every step succeeded: a malformed
\* URL, a URL missing any of device_id, device_public, client_id and
\* client_private, or a failed protocol dial gives an error and no Client.
C16_DialAbortsOnAnyFailure ==
    dialResult = "client" =>
        /\ dialURL.wellFormed
        /\ \A k \in QueryParams : dialURL.query[k] # Absent

\* a packet is delivered to a video session
VideoDelivery == \E s \in SessionIds : SessionKind(s) = "video" /\ Deliver(s)

\* session s of the Start blocked on its deadline is delivered a packet
DeliveredWhileWaiting(s) ==
    /\ Deliver(s)
    /\ StartOf(s) = starts
    /\ pc = "wait"

\* C17: liveness is carried by one stream. With a video track, video packets
\* reset the deadline and audio packets are only written to the audio track,
\* so that Start returns nil once video stops, audio arriving or not; with no
\* video track, audio packets reset the deadline and are written.
C17_OneLivenessStream ==
    /\ [][\A s \in SessionIds :
            DeliveredWhileWaiting(s) =>
                IF videoTrack # 0
                THEN IF SessionKind(s) = "video"
                     THEN TimerRestarted /\ lastPacket'.handler = "resetWrite"
                     ELSE /\ UNCHANGED <<deadline, sinceReset>>
                          /\ audioTrack # 0 => lastPacket'.handler = "write"
                ELSE SessionKind(s) = "audio" =>
                        (TimerRestarted /\ lastPacket'.handler = "resetWrite")]_vars
    /\ (<>[][~VideoDelivery]_vars) =>
          ((SetupDone /\ videoTrack # 0) ~> (pc = "idle" /\ err = "nil"))

\* with both tracks, Start has returned nil right after an audio packet was
\* written to the audio track
C17_Witness ==
    /\ BothTracks
    /\ pc = "idle"
    /\ err = "nil"
    /\ lastPacket = [kind |-> "audio", handler |-> "write"]

\* Stop has removed the sessions of a Start that is blocked on its deadline
StoppedWhileBlocked ==
    /\ pc = "wait"
    /\ hapClosed
    /\ videoSession \notin registry
    /\ audioSession \notin registry

\* C18: a Stop made while Start is blocked on the deadline neither unblocks
\* nor fails that Start; Start leaves the wait only when the deadline has
\* fired, and then returns nil; and with its sessions removed from the
\* registry, so that no packet reaches them, Start does return.
C18_StopDoesNotCancelStart ==
    /\ [][(Stop /\ pc = "wait") => (pc' = "wait" /\ UNCHANGED <<err, deadline, sinceReset>>)]_vars
    /\ [][(pc = "wait" /\ pc' # "wait") =>
             (deadline.C = 1 /\ pc' = "idle" /\ err' = "nil")]_vars
    /\ StoppedWhileBlocked ~> (pc = "idle" /\ err = "nil")

\* Start is still blocked after Stop removed its two sessions
C18_Witness ==
    /\ StoppedWhileBlocked
    /\ {videoSession, audioSession} \subseteq removed
    /\ deadline.armed
    /\ err = "pending"

\* Start is in streaming mode, past the registration of its sessions
Registered == pc \in {"newTimer", "install", "installAudio", "wait"}

\* the Client holds no track of the kind of session s
Trackless(s) == trackByKind(SessionKind(s)) = 0

\* C19: in streaming mode Start creates a video and an audio session, opens
\* the remote stream with both and registers both, whichever track kinds the
\* Client holds; the session whose kind has no track gets no handler, and a
\* packet arriving on it is written to no track and does not reset the deadline.
C19_BothSessionsAlways ==
    /\ [](Registered =>
            /\ videoSession = VideoId(starts)
            /\ audioSession = AudioId(starts)
            /\ starts \in opened
            /\ {videoSession, audioSession} \subseteq everRegistered
            /\ \A s \in {videoSession, audioSession} :
                  Trackless(s) => OnReadRTP[s] = "unset")
    /\ [][\A s \in SessionIds :
            (Deliver(s) /\ StartOf(s) = starts /\ Registered /\ Trackless(s)) =>
                /\ UNCHANGED <<deadline, sinceReset>>
                /\ lastPacket'.handler = "unset"]_vars

\* a Client with a video track only: its audio session is registered and has
\* taken a packet that no handler received
C19_Witness ==
    /\ Receivers.list = <<"H264">>
    /\ pc = "wait"
    /\ audioSession \in registry
    /\ lastPacket = [kind |-> "audio", handler |-> "unset"]

\* the steps of Start that set up and run the RTP sessions
StreamingSteps ==
    {"select", "videoSession", "audioSession", "newStream", "addVideo", "addAudio",
     "newTimer", "install", "installAudio", "wait"}

\* C20: Start takes the MJPEG fallback exactly when the sole receiver of the
\* Client has the still-image codec: a Client holding a receiver with an RTP
\* codec gets session setup instead, and the fallback creates no session,
\* opens no remote stream and registers nothing.
C20_FallbackOnlyForSoleStillImage ==
    /\ pc = "mjpeg" =>
          /\ Receivers.list = <<"JPEG">>
          /\ videoSession # VideoId(starts)
          /\ audioSession # AudioId(starts)
          /\ starts \notin opened
          /\ everRegistered \cap {VideoId(starts), AudioId(starts)} = {}
    /\ pc \in StreamingSteps => Receivers.list # <<"JPEG">>

====
